---- MODULE Spec2Model ----
(***************************************************************************)
(* AffineScalar bijector: Y = g(X; shift, scale) = scale * X + shift.      *)
(*                                                                         *)
(* The transform is elementwise (forward_min_event_ndims = 0), so a tensor *)
(* is modelled by one of its elements: shift = [1, 2, 3] against           *)
(* x = [1, 1, 1] is three runs of the scalar model.                        *)
(*                                                                         *)
(* Numbers are a miniature binary floating-point format with the structure *)
(* of the float32/float64 dtypes the bijector computes in: Precision bits  *)
(* of significand, gradual underflow, round-to-nearest-even, overflow to   *)
(* an infinity, and NaN.  A finite value is the integer n standing for     *)
(* n / Unit.  The sign of zero is not tracked (-0 == 0 in the host         *)
(* arithmetic); a non-zero value divided by zero is an infinity.           *)
(***************************************************************************)
EXTENDS Integers, Sequences, FiniteSets, TLC

\* ---- bounds of the miniature floating-point format ----
Precision == 3
ExpRange == 3
FracBits == 2

RECURSIVE Pow2(_)
Pow2(k) == IF k = 0 THEN 1 ELSE 2 * Pow2(k - 1)

Unit == Pow2(FracBits)
MaxFinite == (Pow2(Precision) - 1) * Pow2(ExpRange)

Abs0(n) == IF n < 0 THEN -n ELSE n

\* ---- values ----
Fin(n) == [k |-> "fin", n |-> n]
PosInf == [k |-> "inf", n |-> 1]
NegInf == [k |-> "inf", n |-> -1]
NaN == [k |-> "nan", n |-> 0]
\* an argument that was not given (shift=None, scale=None)
None == [k |-> "none", n |-> 0]

InfOf(s) == IF s < 0 THEN NegInf ELSE PosInf
Sign(n) == IF n < 0 THEN -1 ELSE 1

\* n is representable: at most Precision significant bits
RECURSIVE Representable(_)
Representable(n) ==
  IF Abs0(n) < Pow2(Precision) THEN TRUE
  ELSE IF Abs0(n) % 2 = 1 THEN FALSE
  ELSE Representable(Abs0(n) \div 2)

FiniteFloats == {Fin(n) : n \in {m \in (-MaxFinite)..MaxFinite : Representable(m)}}

\* the exponent of the binade of a / den: least e with a / den < 2^(Precision+e)
RECURSIVE Binade(_, _, _)
Binade(a, den, e) ==
  IF a < den * Pow2(Precision + e) THEN e ELSE Binade(a, den, e + 1)

\* a / d rounded to the nearest integer, ties to even (a >= 0, d > 0)
RoundHalfEven(a, d) ==
  LET q == a \div d
      r == a % d
  IN  IF 2 * r < d THEN q
      ELSE IF 2 * r > d THEN q + 1
      ELSE IF q % 2 = 0 THEN q ELSE q + 1

\* the rational num / den (den > 0) rounded to the format
Round(num, den) ==
  LET a == Abs0(num)
      e == Binade(a, den, 0)
      m == RoundHalfEven(a, den * Pow2(e))
      n == m * Pow2(e)
  IN  IF n > MaxFinite THEN InfOf(Sign(num)) ELSE Fin(Sign(num) * n)

\* ---- host arithmetic ----
FAdd(a, b) ==
  IF a.k = "nan" \/ b.k = "nan" THEN NaN
  ELSE IF a.k = "inf" /\ b.k = "inf" THEN (IF a.n = b.n THEN a ELSE NaN)
  ELSE IF a.k = "inf" THEN a
  ELSE IF b.k = "inf" THEN b
  ELSE Round(a.n + b.n, 1)

FNeg(a) == IF a.k = "nan" THEN NaN ELSE [k |-> a.k, n |-> -a.n]

FSub(a, b) == FAdd(a, FNeg(b))

FMul(a, b) ==
  IF a.k = "nan" \/ b.k = "nan" THEN NaN
  ELSE IF a.k = "inf" \/ b.k = "inf"
       THEN (IF a.n = 0 \/ b.n = 0 THEN NaN ELSE InfOf(Sign(a.n) * Sign(b.n)))
  ELSE Round(a.n * b.n, Unit)

FDiv(a, b) ==
  IF a.k = "nan" \/ b.k = "nan" THEN NaN
  ELSE IF a.k = "inf" THEN (IF b.k = "inf" THEN NaN ELSE InfOf(a.n * Sign(b.n)))
  ELSE IF b.k = "inf" THEN Fin(0)
  ELSE IF b.n = 0 THEN (IF a.n = 0 THEN NaN ELSE InfOf(Sign(a.n)))
  ELSE Round(Sign(b.n) * a.n * Unit, Abs0(b.n))

FAbs(a) == IF a.k = "nan" THEN NaN ELSE [k |-> a.k, n |-> Abs0(a.n)]

\* ---- natural logarithm of the host math library ----
\* fixed-point scale of the intermediate results of Log
LogScale == 40000
\* ln(2) * LogScale
Ln2Scaled == 27726
LogTerms == 8

\* floor(log2(n)) for n >= 1
RECURSIVE FloorLog2(_)
FloorLog2(n) == IF n < 2 THEN 0 ELSE 1 + FloorLog2(n \div 2)

\* sum over i < terms of z^(2i+1) / (2i+1), z = zs / LogScale, z2 = z^2
RECURSIVE AtanhSeries(_, _, _, _)
AtanhSeries(pw, z2, i, terms) ==
  IF i = terms THEN 0
  ELSE (pw \div (2 * i + 1)) + AtanhSeries((pw * z2) \div LogScale, z2, i + 1, terms)

\* ln(n / Unit) * LogScale for n >= 1:
\* n / Unit = t * 2^(b - FracBits), 1 <= t < 2, ln t = 2 atanh((t-1)/(t+1))
LnScaled(n) ==
  LET b == FloorLog2(n)
      zs == (LogScale * (n - Pow2(b))) \div (n + Pow2(b))
      z2 == (zs * zs) \div LogScale
  IN  (b - FracBits) * Ln2Scaled + 2 * AtanhSeries(zs, z2, 0, LogTerms)

FLog(a) ==
  IF a.k = "nan" THEN NaN
  ELSE IF a.n < 0 THEN NaN
  ELSE IF a.k = "inf" THEN PosInf
  ELSE IF a.n = 0 THEN NegInf
  ELSE IF a.n = Unit THEN Fin(0)
  ELSE Round(LnScaled(a.n) * Unit, LogScale)

\* ---- inputs ----
\* tensors handed to forward / inverse / forward_log_det_jacobian
Inputs == FiniteFloats
\* values of a scale / shift argument given as a plain number
ScaleValues == {Fin(0), Fin(Unit), Fin(-Unit), Fin(2 * Unit), Fin(-2 * Unit), Fin(Unit \div 2)}
ShiftValues == {Fin(Unit), Fin(2 * Unit), Fin(3 * Unit), Fin(-Unit)}
\* values an external writer gives to a tf.Variable passed as scale / shift
ScaleVarValues == {Fin(0), Fin(2 * Unit), Fin(-Unit)}
ShiftVarValues == {Fin(0), Fin(Unit), Fin(3 * Unit)}
DTypes == {"float32", "float64"}

\* constructor arguments: absent, a plain number, or a tf.Variable
\* (val: the number, or the value the variable holds at construction)
NoArg == [kind |-> "none", val |-> None]
ConstArg(v) == [kind |-> "const", val |-> v]
VarArg(v) == [kind |-> "var", val |-> v]
ScaleArgs == {NoArg} \cup {ConstArg(v) : v \in ScaleValues} \cup {VarArg(v) : v \in ScaleVarValues}
ShiftArgs == {NoArg} \cup {ConstArg(v) : v \in ShiftValues} \cup {VarArg(v) : v \in ShiftVarValues}

NoCall == [op |-> "none", input |-> None, arg |-> None, out |-> None, raised |-> "no", asserted |-> FALSE]

VARIABLES
  phase,          \* "new", "ready" (constructed), "failed" (__init__ raised)
  _shift,         \* self._shift
  _scale,         \* self._scale
  validate_args,  \* self.validate_args
  dtype,          \* self.dtype
  shiftVar,       \* value held by the tf.Variable given as shift (None: no variable)
  scaleVar,       \* value held by the tf.Variable given as scale (None: no variable)
  args,           \* the arguments __init__ was called with
  call            \* the call whose outcome the caller is looking at: the tensor passed
                  \* (input), the caller's tensor after the call (arg), the result

vars == <<phase, _shift, _scale, validate_args, dtype, shiftVar, scaleVar, args, call>>

\* ---- tensor_util / dtype_util ----
is_mutable(t) == t.kind = "ref"

convert_immutable_to_tensor(a) ==
  IF a.kind = "none" THEN [kind |-> "none", val |-> None]
  ELSE IF a.kind = "var" THEN [kind |-> "ref", val |-> None]
  ELSE [kind |-> "tensor", val |-> a.val]

\* plain numbers carry no dtype; a variable carries its own
common_dtype(as, vdt, dtype_hint) ==
  IF \E i \in 1..Len(as) : as[i].kind = "var" THEN vdt ELSE dtype_hint

\* ---- AffineScalar ----
shift ==
  IF _shift.kind = "none" THEN None
  ELSE IF _shift.kind = "ref" THEN shiftVar
  ELSE _shift.val

scale ==
  IF _scale.kind = "none" THEN None
  ELSE IF _scale.kind = "ref" THEN scaleVar
  ELSE _scale.val

\* _forward with the shift applied before the scale
_forward_shift_first(x) ==
  LET y0 == x
      y1 == IF shift # None THEN FAdd(y0, shift) ELSE y0
      y2 == IF scale # None THEN FMul(y1, scale) ELSE y1
  IN  [x |-> x, ret |-> y2]

\* _forward without the copy of x: the updates land in the caller's tensor
_forward_in_place(x) ==
  LET y1 == IF scale # None THEN FMul(x, scale) ELSE x
      y2 == IF shift # None THEN FAdd(y1, shift) ELSE y1
  IN  [x |-> y2, ret |-> y2]

\* the bodies return their result (ret) and the caller's tensor as the body leaves it (x / y)
_forward(x) ==
  LET y0 == x
      y1 == IF scale # None THEN FMul(y0, scale) ELSE y0
      y2 == IF shift # None THEN FAdd(y1, shift) ELSE y1
  IN  [x |-> x, ret |-> y2]

\* _inverse with the division before the subtraction
_inverse_scale_first(y) ==
  LET x0 == y
      x1 == IF scale # None THEN FDiv(x0, scale) ELSE x0
      x2 == IF shift # None THEN FSub(x1, shift) ELSE x1
  IN  [y |-> y, ret |-> x2]

\* _inverse multiplying by the scale
_inverse_mul_scale(y) ==
  LET x0 == y
      x1 == IF shift # None THEN FSub(x0, shift) ELSE x0
      x2 == IF scale # None THEN FMul(x1, scale) ELSE x1
  IN  [y |-> y, ret |-> x2]

_inverse(y) ==
  LET x0 == y
      x1 == IF shift # None THEN FSub(x0, shift) ELSE x0
      x2 == IF scale # None THEN FDiv(x1, scale) ELSE x1
  IN  [y |-> y, ret |-> x2]

\* _forward_log_det_jacobian without the abs
_forward_log_det_jacobian_no_abs(x) ==
  IF scale = None THEN [x |-> x, ret |-> Fin(0)]
  ELSE [x |-> x, ret |-> FLog(scale)]

_forward_log_det_jacobian(x) ==
  IF scale = None THEN [x |-> x, ret |-> Fin(0)]
  ELSE [x |-> x, ret |-> FLog(FAbs(scale))]

\* assert_util.assert_none_equal(x, y, message)
assert_none_equal(x, y) == IF x = y THEN "InvalidArgument" ELSE "ok"

\* _parameter_control_dependencies asserting at initialization only
_parameter_control_dependencies_init_only(is_init) ==
  IF ~validate_args THEN [raised |-> "no", assertions |-> <<>>]
  ELSE IF is_init
       THEN IF _scale.kind = "none"
            THEN [raised |-> "AttributeError", assertions |-> <<>>]
            ELSE [raised |-> "no", assertions |-> <<assert_none_equal(scale, Fin(0))>>]
       ELSE [raised |-> "no", assertions |-> <<>>]

\* _parameter_control_dependencies without the validate_args early return
_parameter_control_dependencies_always(is_init) ==
  IF is_init # is_mutable(_scale)
  THEN IF _scale.kind = "none"
       THEN [raised |-> "AttributeError", assertions |-> <<>>]
       ELSE [raised |-> "no", assertions |-> <<assert_none_equal(scale, Fin(0))>>]
  ELSE [raised |-> "no", assertions |-> <<>>]

\* _parameter_control_dependencies with the phase test inverted
_parameter_control_dependencies_flipped(is_init) ==
  IF ~validate_args THEN [raised |-> "no", assertions |-> <<>>]
  ELSE IF is_init = is_mutable(_scale)
       THEN IF _scale.kind = "none"
            THEN [raised |-> "AttributeError", assertions |-> <<>>]
            ELSE [raised |-> "no", assertions |-> <<assert_none_equal(scale, Fin(0))>>]
       ELSE [raised |-> "no", assertions |-> <<>>]

\* the list of assertions, or the exception building it raises
_parameter_control_dependencies(is_init) ==
  IF ~validate_args THEN [raised |-> "no", assertions |-> <<>>]
  ELSE IF is_init # is_mutable(_scale)
       THEN IF _scale.kind = "none"
            THEN [raised |-> "AttributeError", assertions |-> <<>>]
            ELSE [raised |-> "no", assertions |-> <<assert_none_equal(scale, Fin(0))>>]
       ELSE [raised |-> "no", assertions |-> <<>>]

\* ---- bijector.Bijector: running the assertions around a call ----
Outcome(deps) ==
  IF deps.raised # "no" THEN deps.raised
  ELSE IF \E i \in 1..Len(deps.assertions) : deps.assertions[i] # "ok" THEN "InvalidArgument"
  ELSE "no"

Init ==
  /\ phase = "new"
  /\ _shift = convert_immutable_to_tensor(NoArg)
  /\ _scale = convert_immutable_to_tensor(NoArg)
  /\ validate_args = FALSE
  /\ dtype = "float32"
  /\ shiftVar = None
  /\ scaleVar = None
  /\ args = [shift |-> NoArg, scale |-> NoArg]
  /\ call = NoCall

\* __init__ converting its arguments with tf.convert_to_tensor: a variable is
\* read once, at construction
ConstructSnapshot(sh, sc, va, vdt) ==
  /\ phase = "new"
  /\ dtype' = common_dtype(<<sh, sc>>, vdt, "float32")
  /\ shiftVar' = IF sh.kind = "var" THEN sh.val ELSE None
  /\ scaleVar' = IF sc.kind = "var" THEN sc.val ELSE None
  /\ _shift' = convert_immutable_to_tensor(IF sh.kind = "var" THEN ConstArg(sh.val) ELSE sh)
  /\ _scale' = convert_immutable_to_tensor(IF sc.kind = "var" THEN ConstArg(sc.val) ELSE sc)
  /\ validate_args' = va
  /\ args' = [shift |-> sh, scale |-> sc]
  /\ LET deps == (_parameter_control_dependencies(TRUE))'
     IN  /\ phase' = IF Outcome(deps) = "no" THEN "ready" ELSE "failed"
         /\ call' = [op |-> "init", input |-> None, arg |-> None, out |-> None,
                     raised |-> Outcome(deps),
                     asserted |-> Len(deps.assertions) > 0]

\* AffineScalar(shift=sh, scale=sc, validate_args=va); vdt: the dtype of the variables
\* __init__ stores the parameters, then Bijector.__init__ runs the is_init=True assertions
Construct(sh, sc, va, vdt) ==
  /\ phase = "new"
  /\ dtype' = common_dtype(<<sh, sc>>, vdt, "float32")
  /\ shiftVar' = IF sh.kind = "var" THEN sh.val ELSE None
  /\ scaleVar' = IF sc.kind = "var" THEN sc.val ELSE None
  /\ _shift' = convert_immutable_to_tensor(sh)
  /\ _scale' = convert_immutable_to_tensor(sc)
  /\ validate_args' = va
  /\ args' = [shift |-> sh, scale |-> sc]
  /\ LET deps == (_parameter_control_dependencies(TRUE))'
     IN  /\ phase' = IF Outcome(deps) = "no" THEN "ready" ELSE "failed"
         /\ call' = [op |-> "init", input |-> None, arg |-> None, out |-> None,
                     raised |-> Outcome(deps),
                     asserted |-> Len(deps.assertions) > 0]

\* a call has returned (or raised) and the caller has not yet taken its outcome
Pending == call.op \in {"forward", "inverse", "fldj"}

\* bijector.forward(x): the is_init=False assertions, then _forward
Forward(x) ==
  /\ phase = "ready"
  /\ ~Pending
  /\ LET deps == _parameter_control_dependencies(FALSE)
         body == _forward(x)
     IN  call' = [op |-> "forward",
                  input |-> x,
                  arg |-> IF Outcome(deps) = "no" THEN body.x ELSE x,
                  out |-> IF Outcome(deps) = "no" THEN body.ret ELSE None,
                  raised |-> Outcome(deps),
                  asserted |-> Len(deps.assertions) > 0]
  /\ UNCHANGED <<phase, _shift, _scale, validate_args, dtype, shiftVar, scaleVar, args>>

\* bijector.inverse(y)
Inverse(y) ==
  /\ phase = "ready"
  /\ ~Pending
  /\ LET deps == _parameter_control_dependencies(FALSE)
         body == _inverse(y)
     IN  call' = [op |-> "inverse",
                  input |-> y,
                  arg |-> IF Outcome(deps) = "no" THEN body.y ELSE y,
                  out |-> IF Outcome(deps) = "no" THEN body.ret ELSE None,
                  raised |-> Outcome(deps),
                  asserted |-> Len(deps.assertions) > 0]
  /\ UNCHANGED <<phase, _shift, _scale, validate_args, dtype, shiftVar, scaleVar, args>>

\* bijector.forward_log_det_jacobian(x, event_ndims=0)
ForwardLogDetJacobian(x) ==
  /\ phase = "ready"
  /\ ~Pending
  /\ LET deps == _parameter_control_dependencies(FALSE)
         body == _forward_log_det_jacobian(x)
     IN  call' = [op |-> "fldj",
                  input |-> x,
                  arg |-> IF Outcome(deps) = "no" THEN body.x ELSE x,
                  out |-> IF Outcome(deps) = "no" THEN body.ret ELSE None,
                  raised |-> Outcome(deps),
                  asserted |-> Len(deps.assertions) > 0]
  /\ UNCHANGED <<phase, _shift, _scale, validate_args, dtype, shiftVar, scaleVar, args>>

\* the caller takes the outcome of the call (return y / return x / the raise)
Return ==
  /\ Pending
  /\ call' = NoCall
  /\ UNCHANGED <<phase, _shift, _scale, validate_args, dtype, shiftVar, scaleVar, args>>

\* an external writer assigns the variable passed as scale (scale.assign(v))
WriteScale(v) ==
  /\ phase = "ready"
  /\ args.scale.kind = "var"
  /\ v # scaleVar
  /\ scaleVar' = v
  /\ call' = NoCall
  /\ UNCHANGED <<phase, _shift, _scale, validate_args, dtype, shiftVar, args>>

\* an external writer assigns the variable passed as shift (shift.assign(v))
WriteShift(v) ==
  /\ phase = "ready"
  /\ args.shift.kind = "var"
  /\ v # shiftVar
  /\ shiftVar' = v
  /\ call' = NoCall
  /\ UNCHANGED <<phase, _shift, _scale, validate_args, dtype, scaleVar, args>>

Next ==
  \/ \E sh \in ShiftArgs, sc \in ScaleArgs, va \in BOOLEAN, vdt \in DTypes :
       Construct(sh, sc, va, vdt)
  \/ \E x \in Inputs : Forward(x)
  \/ \E y \in Inputs : Inverse(y)
  \/ \E x \in Inputs : ForwardLogDetJacobian(x)
  \/ Return
  \/ \E v \in ScaleVarValues : WriteScale(v)
  \/ \E v \in ShiftVarValues : WriteShift(v)

Spec == Init /\ [][Next]_vars

\* ======================= properties =======================

\* what the caller passed, read from the caller's side: a plain number keeps its
\* value, a variable holds whatever was last assigned to it
TrueShift ==
  IF args.shift.kind = "none" THEN None
  ELSE IF args.shift.kind = "var" THEN shiftVar
  ELSE args.shift.val

TrueScale ==
  IF args.scale.kind = "none" THEN None
  ELSE IF args.scale.kind = "var" THEN scaleVar
  ELSE args.scale.val

ScaleOrOne == IF TrueScale = None THEN Fin(Unit) ELSE TrueScale
ShiftOrZero == IF TrueShift = None THEN Fin(0) ELSE TrueShift

Returned(op) == call.op = op /\ call.raised = "no"
NonFinite(v) == v.k \in {"inf", "nan"}

\* the operation on a and b is computed without rounding or overflow
ExactMul(a, b) ==
  /\ a.k = "fin" /\ b.k = "fin"
  /\ FMul(a, b).k = "fin" /\ FMul(a, b).n * Unit = a.n * b.n
ExactAdd(a, b) ==
  /\ a.k = "fin" /\ b.k = "fin"
  /\ FAdd(a, b).k = "fin" /\ FAdd(a, b).n = a.n + b.n
ExactSub(a, b) ==
  /\ a.k = "fin" /\ b.k = "fin"
  /\ FSub(a, b).k = "fin" /\ FSub(a, b).n = a.n - b.n
ExactDiv(a, b) ==
  /\ a.k = "fin" /\ b.k = "fin" /\ b.n # 0
  /\ FDiv(a, b).k = "fin" /\ FDiv(a, b).n * b.n = a.n * Unit

\* every step of Forward(x) is exact
ForwardIsExact(x) ==
  /\ TrueScale # None => ExactMul(x, TrueScale)
  /\ TrueShift # None => ExactAdd(FMul(x, ScaleOrOne), TrueShift)
\* every step of Inverse(y) is exact
InverseIsExact(y) ==
  /\ TrueShift # None => ExactSub(y, TrueShift)
  /\ TrueScale # None => ExactDiv(FSub(y, ShiftOrZero), TrueScale)

\* C1 (as stated): with scale absent or non-zero and the parameters unchanged,
\* Inverse(Forward(x)) == x and Forward(Inverse(x)) == x for every x.
C1_RoundTrip ==
  /\ (Returned("forward") /\ TrueScale # Fin(0)) => _inverse(call.out).ret = call.input
  /\ (Returned("inverse") /\ TrueScale # Fin(0)) => _forward(call.out).ret = call.input

\* C1 (amended): the round trips return x exactly whenever the first call's
\* steps are computed without rounding or overflow.
C1_RoundTripExact ==
  /\ (Returned("forward") /\ TrueScale # Fin(0) /\ ForwardIsExact(call.input))
       => _inverse(call.out).ret = call.input
  /\ (Returned("inverse") /\ TrueScale # Fin(0) /\ InverseIsExact(call.input))
       => _forward(call.out).ret = call.input

C1_Witness ==
  /\ Returned("inverse")
  /\ TrueScale = Fin(-2 * Unit) /\ TrueShift = Fin(Unit)
  /\ call.input = Fin(3 * Unit) /\ call.out = Fin(-Unit)
  /\ InverseIsExact(call.input)
  /\ _forward(call.out).ret = call.input

\* C2: Forward(x) returns scale * x + shift, an absent scale acting as 1 and an
\* absent shift as 0, the scale applied before the shift; the documented examples hold.
C2_Forward ==
  Returned("forward") =>
    /\ call.out = FAdd(FMul(ScaleOrOne, call.input), ShiftOrZero)
    /\ (TrueScale = None /\ TrueShift = None) => call.out = call.input
    /\ (TrueScale = None /\ call.input = Fin(0) /\ TrueShift \in {Fin(Unit), Fin(2 * Unit), Fin(3 * Unit)})
         => call.out = TrueShift
    /\ (TrueScale = Fin(2 * Unit) /\ call.input = Fin(0)
        /\ TrueShift \in {Fin(Unit), Fin(2 * Unit), Fin(3 * Unit)})
         => call.out = TrueShift
    /\ (TrueScale = Fin(2 * Unit) /\ call.input = Fin(Unit) /\ TrueShift = Fin(Unit))
         => call.out = Fin(3 * Unit)
    /\ (TrueScale = Fin(2 * Unit) /\ call.input = Fin(Unit) /\ TrueShift = Fin(2 * Unit))
         => call.out = Fin(4 * Unit)
    /\ (TrueScale = Fin(2 * Unit) /\ call.input = Fin(Unit) /\ TrueShift = Fin(3 * Unit))
         => call.out = Fin(5 * Unit)

\* scale 2, shift 3, x 1: 2 * 1 + 3 = 5 and not (1 + 3) * 2 = 8
C2_Witness ==
  /\ Returned("forward")
  /\ TrueScale = Fin(2 * Unit) /\ TrueShift = Fin(3 * Unit) /\ call.input = Fin(Unit)
  /\ call.out = Fin(5 * Unit)
  /\ call.out # FMul(FAdd(call.input, TrueShift), TrueScale)

\* C3: Inverse(y) returns (y - shift) / scale, the shift subtracted first, the
\* scale divided second, an absent shift acting as 0 and an absent scale as 1.
C3_Inverse ==
  Returned("inverse") =>
    /\ call.out = FDiv(FSub(call.input, ShiftOrZero), ScaleOrOne)
    /\ (TrueScale = None /\ TrueShift = None) => call.out = call.input

\* scale 2, shift 1, y 3: (3 - 1) / 2 = 1 and not 3 / 2 - 1 = 0.5
C3_Witness ==
  /\ Returned("inverse")
  /\ TrueScale = Fin(2 * Unit) /\ TrueShift = Fin(Unit) /\ call.input = Fin(3 * Unit)
  /\ call.out = Fin(Unit)
  /\ call.out # FSub(FDiv(call.input, TrueScale), TrueShift)

\* C4: ForwardLogDetJacobian(x) is 0 when scale is absent and log(abs(scale))
\* otherwise, whatever x and shift are: scale and -scale give the same value
\* and scale = 1 or -1 gives 0.
C4_LogDet ==
  Returned("fldj") =>
    /\ TrueScale = None => call.out = Fin(0)
    /\ TrueScale # None =>
         /\ call.out = FLog(FAbs(TrueScale))
         /\ call.out = FLog(FAbs(FNeg(TrueScale)))
         /\ TrueScale \in {Fin(Unit), Fin(-Unit)} => call.out = Fin(0)

C4_Witness ==
  /\ Returned("fldj")
  /\ TrueScale = Fin(-2 * Unit)
  /\ TrueShift # None
  /\ call.input # Fin(0)
  /\ call.out = FLog(Fin(2 * Unit))
  /\ call.out.k = "fin" /\ call.out.n > 0

\* C5: with validation on and a scale provided, every Forward, Inverse or
\* ForwardLogDetJacobian made while scale == 0 raises the invalid-parameter
\* failure and returns nothing; a fixed zero scale never yields a usable bijector.
C5_ZeroScaleRaises ==
  (validate_args /\ TrueScale = Fin(0)) =>
    /\ Pending => (call.raised = "InvalidArgument" /\ call.out = None)
    /\ args.scale.kind = "const" => (phase = "failed" /\ call.raised = "InvalidArgument")

\* the variable given as scale was non-zero at construction and is zero at the call
C5_Witness ==
  /\ validate_args
  /\ args.scale.kind = "var" /\ args.scale.val # Fin(0) /\ scaleVar = Fin(0)
  /\ call.op = "inverse"
  /\ call.raised = "InvalidArgument"

\* C6: with validation off no assertion is produced, for any scale, any
\* mutability and either phase, construction and every evaluation complete
\* without failure, and Inverse(y) with a zero scale returns a non-finite value.
C6_NoValidation ==
  (~validate_args /\ phase # "new") =>
    /\ phase = "ready"
    /\ call.raised = "no"
    /\ ~call.asserted
    /\ (call.op = "inverse" /\ TrueScale = Fin(0)) => NonFinite(call.out)

C6_Witness ==
  /\ ~validate_args
  /\ TrueScale = Fin(0)
  /\ Returned("inverse")
  /\ call.input # ShiftOrZero
  /\ NonFinite(call.out)

\* C7: with validation on and a scale provided, the scale != 0 assertion is
\* produced exactly when the phase of the call matches the mutability of the
\* scale: at initialization and on no later call for a fixed scale, on every
\* evaluation and not at initialization for a variable.
C7_AssertionTiming ==
  (validate_args /\ args.scale.kind # "none" /\ call.op # "none") =>
    (call.asserted <=> ((call.op = "init") # (args.scale.kind = "var")))

C7_Witness ==
  /\ validate_args
  /\ args.scale.kind = "var"
  /\ Returned("forward")
  /\ call.asserted

\* C8 (as stated): with validation on and scale absent, no assertion is
\* produced and nothing fails: construction and every evaluation succeed.
C8_AbsentScaleNoFailure ==
  (validate_args /\ args.scale.kind = "none" /\ phase # "new") =>
    /\ phase = "ready"
    /\ call.raised = "no"
    /\ ~call.asserted

ParamsUnchanged ==
  /\ UNCHANGED <<_shift, _scale, validate_args, dtype, shiftVar, scaleVar>>
  /\ shift' = shift /\ scale' = scale

\* C9: Forward, Inverse, ForwardLogDetJacobian and the validation check leave
\* shift, scale, validate_args and dtype unchanged, the value of a variable
\* included, and leave their input as it was; only an external writer changes
\* the value of a variable.
C9_Frame ==
  [][/\ (~Pending /\ Pending') => ParamsUnchanged
     /\ (~Pending /\ Pending') => call'.arg = call'.input
     /\ (phase = "new" /\ phase' # "new") =>
          (scale' = args'.scale.val /\ shift' = args'.shift.val)
     /\ (phase # "new" /\ ~ParamsUnchanged) =>
          \/ \E v \in ScaleVarValues : WriteScale(v)
          \/ \E v \in ShiftVarValues : WriteShift(v)]_vars

\* a call on variables has returned with the variables and the input as they were
C9_Witness ==
  /\ Returned("forward")
  /\ args.scale.kind = "var" /\ args.shift.kind = "var"
  /\ scaleVar = args.scale.val /\ shiftVar = args.shift.val
  /\ call.out # call.input

\* the result of op on input x under the values the variables hold now
Expected(op, x) ==
  LET s == IF args.scale.kind = "var" THEN scaleVar ELSE args.scale.val
      b == IF args.shift.kind = "var" THEN shiftVar ELSE args.shift.val
  IN  IF op = "forward"
        THEN (IF b = None THEN (IF s = None THEN x ELSE FMul(s, x))
              ELSE FAdd(IF s = None THEN x ELSE FMul(s, x), b))
      ELSE IF op = "inverse"
        THEN (IF s = None THEN (IF b = None THEN x ELSE FSub(x, b))
              ELSE FDiv(IF b = None THEN x ELSE FSub(x, b), s))
      ELSE (IF s = None THEN Fin(0) ELSE FLog(FAbs(s)))

\* the same, under the values the variables held at construction
ExpectedAtInit(op, x) ==
  LET s == args.scale.val
      b == args.shift.val
  IN  IF op = "forward"
        THEN (IF b = None THEN (IF s = None THEN x ELSE FMul(s, x))
              ELSE FAdd(IF s = None THEN x ELSE FMul(s, x), b))
      ELSE IF op = "inverse"
        THEN (IF s = None THEN (IF b = None THEN x ELSE FSub(x, b))
              ELSE FDiv(IF b = None THEN x ELSE FSub(x, b), s))
      ELSE (IF s = None THEN Fin(0) ELSE FLog(FAbs(s)))

\* C10: when scale or shift is a variable, every evaluation uses the value the
\* variable holds at the call, not the one it held at construction; the result
\* is a function of the input and the current values alone.
C10_LiveValues ==
  (Pending /\ call.raised = "no" /\ (args.scale.kind = "var" \/ args.shift.kind = "var")) =>
    call.out = Expected(call.op, call.input)

\* both variables were assigned since construction, and the result differs from
\* the one the construction-time values give
C10_Witness ==
  /\ Returned("forward")
  /\ args.scale.kind = "var" /\ args.shift.kind = "var"
  /\ scaleVar # args.scale.val /\ shiftVar # args.shift.val
  /\ call.out = Expected("forward", call.input)
  /\ call.out # ExpectedAtInit("forward", call.input)

====
